---- MODULE Spec2Model ----
(***************************************************************************)
(* Model of server/index.js of the shipping tracker: an Express API that   *)
(* keeps users and shipments in one JSON document (lowdb), with JWT auth.  *)
(*                                                                         *)
(* Every handler is an async function: it runs atomically between its      *)
(* await points (Node's event loop is single-threaded) and handlers of     *)
(* different requests interleave at the awaits.  The store `db` is one     *)
(* global object: db.read() replaces db.data by the parsed file content,   *)
(* db.write() serialises db.data at the moment of the call and hands the   *)
(* text to the file writer, which replaces the file atomically, one write  *)
(* at a time, keeping only the latest text handed to it while busy.        *)
(* A read takes the file content when the request arrives or later; taking *)
(* it on arrival loses no behaviour, since an arrival changes nothing else. *)
(* The handlers in flight are a bag: which of them arrived first does not   *)
(* matter, only where each one stands.                                      *)
(*                                                                         *)
(* Strings whose letter case matters (emails, tracking codes) are records  *)
(* [txt, cs]: the text with its case folded, and the case it is written    *)
(* in.  Fields no operation ever reads back (shipment id, createdAt,       *)
(* service, weight, toName, toAddress, the `at` of a history entry, the    *)
(* user's name) are left out of the records.                               *)
(***************************************************************************)
EXTENDS Integers, Sequences, FiniteSets, Bags, TLC

\* ---------------------------------------------------------------- bounds
NumProcs == 2          \* requests that can be in flight at once
MaxReqs == 4           \* requests served in one behaviour of Spec
SeqMaxReqs == 8        \* requests served in one behaviour of SeqSpec

\* ---------------------------------------------------------------- strings
Empty == [txt |-> "", cs |-> "lower"]
EmailInputs ==
    {[txt |-> "a@b.com", cs |-> "lower"], [txt |-> "a@b.com", cs |-> "mixed"],
     [txt |-> "c@d.com", cs |-> "lower"], Empty}
RegisterPasswords == {"", "x"}
LoginPasswords == {"", "x", "y"}

toLowerCase(s) == [s EXCEPT !.cs = "lower"]
toUpperCase(s) == [s EXCEPT !.cs = "upper"]

\* ---------------------------------------------------------------- shipment stages
nextStatuses == <<"Label Created", "Picked Up", "In Transit", "Out for Delivery", "Delivered">>

\* Array.prototype.indexOf, 1-based; 0 when absent (JavaScript's -1)
indexOf(arr, x) ==
    IF \E i \in 1..Len(arr) : arr[i] = x
    THEN CHOOSE i \in 1..Len(arr) : arr[i] = x /\ \A j \in 1..(i - 1) : arr[j] # x
    ELSE 0

Min(a, b) == IF a < b THEN a ELSE b

\* mutant of nextStatus: past the last stage it starts over
nextStatusWrap(status) ==
    nextStatuses[(indexOf(nextStatuses, status) % Len(nextStatuses)) + 1]

\* next = nextStatuses[Math.min(curIndex + 1, nextStatuses.length - 1)]
nextStatus(status) == nextStatuses[Min(indexOf(nextStatuses, status) + 1, Len(nextStatuses))]

\* mutants of advanceShipment: the entry pushed is the old status; a Delivered
\* shipment is left as it is; the old and the new status are both pushed
advanceShipmentOldEntry(s) ==
    [s EXCEPT !.status = nextStatus(s.status), !.history = Append(s.history, s.status)]

advanceShipmentStopAtDelivered(s) ==
    IF s.status = "Delivered" THEN s
    ELSE [s EXCEPT !.status = nextStatus(s.status),
                   !.history = Append(s.history, nextStatus(s.status))]

advanceShipmentPushTwice(s) ==
    [s EXCEPT !.status = nextStatus(s.status),
              !.history = Append(Append(s.history, s.status), nextStatus(s.status))]

\* s.status = next; s.history.push({ status: next, ... })
advanceShipment(s) ==
    [s EXCEPT !.status = nextStatus(s.status),
              !.history = Append(s.history, nextStatus(s.status))]

\* the shipment object literal of POST /api/shipments
newShipment(tracking, owner) ==
    [tracking |-> tracking, status |-> "Label Created",
     history |-> <<"Label Created">>, owner |-> owner]

\* ---------------------------------------------------------------- users, tokens
\* bcrypt.hash / bcrypt.compare: the hash is not the password, and compares
\* equal exactly to the password it was made from
bcryptHash(password) == [hashOf |-> password]
bcryptCompare(password, hash) == hash.hashOf = password

newUser(id, email, password) ==
    [id |-> id, email |-> toLowerCase(email), password |-> bcryptHash(password)]

\* A bearer token as the client sends it: absent, not a JWT, past its 7 days,
\* signed with another secret, or good.  uid is the id in its payload.
TokenKinds == {"missing", "malformed", "expired", "badsig", "valid"}
NoToken == [kind |-> "missing", uid |-> 0]

\* mutant of authMiddleware: the expiry is not checked
authMiddlewareIgnoreExpiration(token) == token.kind \in {"valid", "expired"}

\* authMiddleware: TRUE when next() is called, FALSE when it answers 401
authMiddleware(token) == token.kind = "valid"

\* ---------------------------------------------------------------- the document
EmptyDoc == [users |-> <<>>, shipments |-> <<>>]

\* Array.prototype.find: index of the first match, 0 when there is none
findUser(doc, email) ==
    LET hits == {i \in 1..Len(doc.users) : doc.users[i].email = toLowerCase(email)}
    IN IF hits = {} THEN 0 ELSE CHOOSE i \in hits : \A j \in hits : i <= j

findShipment(doc, tracking) ==
    LET hits == {i \in 1..Len(doc.shipments) : doc.shipments[i].tracking = toUpperCase(tracking)}
    IN IF hits = {} THEN 0 ELSE CHOOSE i \in hits : \A j \in hits : i <= j

\* mutant of filterOwner: every shipment is listed
filterOwnerAll(ships, uid) == ships

\* db.data.shipments.filter(s => s.owner === req.user.id)
RECURSIVE filterOwner(_, _)
filterOwner(ships, uid) ==
    IF ships = <<>> THEN <<>>
    ELSE IF Head(ships).owner = uid
         THEN <<Head(ships)>> \o filterOwner(Tail(ships), uid)
         ELSE filterOwner(Tail(ships), uid)

\* ---------------------------------------------------------------- state
VARIABLES
    file,          \* data/db.json: the persisted document
    dbData,        \* db.data: the one in-memory document all handlers share
    writer,        \* the file writer: the text being written, the text queued behind it
    req,           \* the handlers in flight (a bag): each one's inputs and where it stands
    sent,          \* the answers sent by the step just taken
    nextId,        \* the values nanoid() has handed out so far (each one is new)
    budget,        \* requests still to be served
    issued,        \* user ids for which a client holds a signed token
    registeredOK,  \* emails (case folded) whose register request was answered 200
    createdOK,     \* [tracking, owner] of the create requests answered 200, in order
    advanced,      \* per tracking code: advance handlers that have updated the shipment
    observed       \* per tracking code: the latest stage index seen in the file so far

vars == <<file, dbData, writer, req, sent, nextId, budget, issued, registeredOK, createdOK,
          advanced, observed>>

IdBound == MaxReqs + SeqMaxReqs
NoTrackingCode == [txt |-> 0, cs |-> "upper"]

Idle ==
    [pc |-> "idle", kind |-> "none", email |-> Empty, password |-> "", token |-> NoToken,
     tracking |-> NoTrackingCode, loaded |-> <<>>, user |-> <<>>, wait |-> "none",
     code |-> 0, error |-> "", out |-> <<>>, uid |-> 0, seen |-> {}]

\* res.status(code).json({ error }) / res.json(body): the answer, with the
\* request it answers
Answer(r, code, error, out, uid) ==
    [Idle EXCEPT !.pc = "done", !.kind = r.kind, !.email = r.email, !.seen = r.seen,
                 !.tracking = r.tracking, !.token = r.token,
                 !.code = code, !.error = error, !.out = out, !.uid = uid]

\* initDB has run on an empty data directory
InitWith(n) ==
    /\ file = EmptyDoc
    /\ dbData = EmptyDoc
    /\ writer = [cur |-> <<>>, next |-> <<>>]
    /\ req = EmptyBag
    /\ sent = {}
    /\ nextId = 1
    /\ budget = n
    /\ issued = {}
    /\ registeredOK = {}
    /\ createdOK = <<>>
    /\ advanced = [t \in 1..IdBound |-> 0]
    /\ observed = [t \in 1..IdBound |-> 0]

Init == InitWith(MaxReqs)

\* ---------------------------------------------------------------- the store
\* db.write(): JSON.stringify(db.data) now; the writer takes the text if it is
\* free, else keeps it as the next text (dropping one it already kept)
dbWrite(w, snap) ==
    IF w.cur = <<>> THEN [cur |-> <<snap>>, next |-> <<>>]
    ELSE [w EXCEPT !.next = <<snap>>]

\* what the caller of db.write() waits for: the end of the whole chain of writes
\* ("direct", the caller that found the writer free) or the write of the kept text
writeWait(w) == IF w.cur = <<>> THEN "direct" ELSE "queued"

\* ---------------------------------------------------------------- steps of a handler
\* a request is accepted: its handler starts
CanStart == BagCardinality(req) < NumProcs /\ budget > 0

\* a new handler answers at once
StartReply(a) ==
    /\ req' = req
    /\ sent' = {a}

\* a new handler stops at its first await
StartAwait(r) ==
    /\ req' = req (+) SetToBag({r})
    /\ sent' = {}

\* the handler r answers and is over
Reply(r, a) ==
    /\ req' = req (-) SetToBag({r})
    /\ sent' = {a}

\* the handler r goes on to its next await, as r2
Await(r, r2) ==
    /\ req' = (req (-) SetToBag({r})) (+) SetToBag({r2})
    /\ sent' = {}

TokenInputs ==
    {NoToken, [kind |-> "malformed", uid |-> 0]}
    \cup {[kind |-> k, uid |-> u] : k \in TokenKinds \ {"missing", "malformed"}, u \in issued}

TrackingInputs ==
    {[txt |-> t, cs |-> c] :
        t \in {0} \cup {createdOK[i].tracking.txt : i \in 1..Len(createdOK)},
        c \in {"upper", "lower"}}

\* ---------------------------------------------------------------- POST /api/register
register ==
    /\ CanStart
    /\ \E email \in EmailInputs, password \in RegisterPasswords :
        LET r == [Idle EXCEPT !.kind = "register", !.email = email, !.password = password,
                              !.seen = registeredOK]
        IN IF email = Empty \/ password = ""
           THEN StartReply(Answer(r, 400, "email & password required", <<>>, 0))
           ELSE StartAwait([r EXCEPT !.pc = "read", !.loaded = <<file>>])
    /\ budget' = budget - 1
    /\ UNCHANGED <<file, dbData, writer, nextId, issued, registeredOK, createdOK, advanced, observed>>

\* after `await db.read()`
registerAfterRead(r) ==
    /\ r.pc = "read" /\ r.kind = "register"
    /\ dbData' = r.loaded[1]
    /\ IF findUser(dbData', r.email) # 0
       THEN Reply(r, Answer(r, 400, "User exists", <<>>, 0))
       ELSE Await(r, [r EXCEPT !.pc = "hash", !.loaded = <<>>])
    /\ UNCHANGED <<file, writer, nextId, budget, issued, registeredOK, createdOK, advanced, observed>>

\* after `await bcrypt.hash(password, 10)`: push the user, db.write()
registerAfterHash(r) ==
    /\ r.pc = "hash" /\ r.kind = "register"
    /\ LET user == newUser(nextId, r.email, r.password)
       IN /\ dbData' = [dbData EXCEPT !.users = Append(@, user)]
          /\ writer' = dbWrite(writer, dbData')
          /\ Await(r, [r EXCEPT !.pc = "write", !.wait = writeWait(writer),
                                     !.code = 200, !.uid = user.id])
    /\ nextId' = nextId + 1
    /\ UNCHANGED <<file, budget, issued, registeredOK, createdOK, advanced, observed>>

\* ---------------------------------------------------------------- POST /api/login
login ==
    /\ CanStart
    /\ \E email \in EmailInputs, password \in LoginPasswords :
        LET r == [Idle EXCEPT !.kind = "login", !.email = email, !.password = password]
        IN IF email = Empty \/ password = ""
           THEN StartReply(Answer(r, 400, "email & password required", <<>>, 0))
           ELSE StartAwait([r EXCEPT !.pc = "read", !.loaded = <<file>>])
    /\ budget' = budget - 1
    /\ UNCHANGED <<file, dbData, writer, nextId, issued, registeredOK, createdOK, advanced, observed>>

loginAfterRead(r) ==
    /\ r.pc = "read" /\ r.kind = "login"
    /\ dbData' = r.loaded[1]
    /\ LET i == findUser(dbData', r.email)
       IN IF i = 0
          THEN Reply(r, Answer(r, 400, "Invalid credentials", <<>>, 0))
          ELSE Await(r, [r EXCEPT !.pc = "hash", !.loaded = <<>>,
                                       !.user = <<dbData'.users[i]>>])
    /\ UNCHANGED <<file, writer, nextId, budget, issued, registeredOK, createdOK, advanced, observed>>

\* after `await bcrypt.compare(password, user.password)`
loginAfterCompare(r) ==
    /\ r.pc = "hash" /\ r.kind = "login"
    /\ LET user == r.user[1]
           ok == bcryptCompare(r.password, user.password)
       IN /\ IF ok THEN Reply(r, Answer(r, 200, "", <<>>, user.id))
             ELSE Reply(r, Answer(r, 400, "Invalid credentials", <<>>, 0))
          /\ issued' = IF ok THEN issued \cup {user.id} ELSE issued
    /\ UNCHANGED <<file, dbData, writer, nextId, budget, registeredOK, createdOK, advanced, observed>>

\* ---------------------------------------------------------------- POST /api/shipments
\* fields: toName and toAddress are both present in the body
createShipment ==
    /\ CanStart
    /\ \E token \in TokenInputs, fields \in BOOLEAN :
        LET r == [Idle EXCEPT !.kind = "create", !.token = token]
        IN IF ~authMiddleware(token)
           THEN StartReply(Answer(r, 401, IF token.kind = "missing" THEN "Missing auth"
                                        ELSE "Invalid token", <<>>, 0))
           ELSE IF ~fields
           THEN StartReply(Answer(r, 400, "toName & toAddress required", <<>>, 0))
           ELSE StartAwait([r EXCEPT !.pc = "read", !.loaded = <<file>>])
    /\ budget' = budget - 1
    /\ UNCHANGED <<file, dbData, writer, nextId, issued, registeredOK, createdOK, advanced, observed>>

\* after `await db.read()`: build the shipment, push it, db.write()
createAfterRead(r) ==
    /\ r.pc = "read" /\ r.kind = "create"
    /\ LET tracking == toUpperCase([txt |-> nextId, cs |-> "mixed"])
           shipment == newShipment(tracking, r.token.uid)
       IN /\ dbData' = [r.loaded[1] EXCEPT !.shipments = Append(@, shipment)]
          /\ writer' = dbWrite(writer, dbData')
          /\ Await(r, [r EXCEPT !.pc = "write", !.wait = writeWait(writer),
                                     !.loaded = <<>>, !.tracking = tracking,
                                     !.code = 200, !.out = <<shipment>>])
    /\ nextId' = nextId + 1
    /\ UNCHANGED <<file, budget, issued, registeredOK, createdOK, advanced, observed>>

\* ---------------------------------------------------------------- GET /api/shipments/:tracking
getShipment ==
    /\ CanStart
    /\ \E tracking \in TrackingInputs :
        StartAwait([Idle EXCEPT !.kind = "get", !.tracking = tracking,
                              !.pc = "read", !.loaded = <<file>>])
    /\ budget' = budget - 1
    /\ UNCHANGED <<file, dbData, writer, nextId, issued, registeredOK, createdOK, advanced, observed>>

getAfterRead(r) ==
    /\ r.pc = "read" /\ r.kind = "get"
    /\ dbData' = r.loaded[1]
    /\ LET i == findShipment(dbData', r.tracking)
       IN IF i = 0 THEN Reply(r, Answer(r, 404, "Not found", <<>>, 0))
          ELSE Reply(r, Answer(r, 200, "", <<dbData'.shipments[i]>>, 0))
    /\ UNCHANGED <<file, writer, nextId, budget, issued, registeredOK, createdOK, advanced, observed>>

\* ---------------------------------------------------------------- GET /api/my-shipments
myShipments ==
    /\ CanStart
    /\ \E token \in TokenInputs :
        LET r == [Idle EXCEPT !.kind = "list", !.token = token]
        IN IF ~authMiddleware(token)
           THEN StartReply(Answer(r, 401, IF token.kind = "missing" THEN "Missing auth"
                                        ELSE "Invalid token", <<>>, 0))
           ELSE StartAwait([r EXCEPT !.pc = "read", !.loaded = <<file>>])
    /\ budget' = budget - 1
    /\ UNCHANGED <<file, dbData, writer, nextId, issued, registeredOK, createdOK, advanced, observed>>

myShipmentsAfterRead(r) ==
    /\ r.pc = "read" /\ r.kind = "list"
    /\ dbData' = r.loaded[1]
    /\ Reply(r, Answer(r, 200, "", filterOwner(dbData'.shipments, r.token.uid), 0))
    /\ UNCHANGED <<file, writer, nextId, budget, issued, registeredOK, createdOK, advanced, observed>>

\* ---------------------------------------------------------------- POST /api/shipments/:tracking/advance
advance ==
    /\ CanStart
    /\ \E tracking \in TrackingInputs :
        StartAwait([Idle EXCEPT !.kind = "advance", !.tracking = tracking,
                              !.pc = "read", !.loaded = <<file>>])
    /\ budget' = budget - 1
    /\ UNCHANGED <<file, dbData, writer, nextId, issued, registeredOK, createdOK, advanced, observed>>

\* after `await db.read()`: find the shipment, move it on, db.write()
advanceAfterRead(r) ==
    /\ r.pc = "read" /\ r.kind = "advance"
    /\ LET doc == r.loaded[1]
           i == findShipment(doc, r.tracking)
       IN IF i = 0
          THEN /\ dbData' = doc
               /\ Reply(r, Answer(r, 404, "Not found", <<>>, 0))
               /\ UNCHANGED <<writer, advanced>>
          ELSE LET s == advanceShipment(doc.shipments[i])
               IN /\ dbData' = [doc EXCEPT !.shipments[i] = s]
                  /\ writer' = dbWrite(writer, dbData')
                  /\ Await(r, [r EXCEPT !.pc = "write", !.loaded = <<>>,
                                             !.wait = writeWait(writer),
                                             !.code = 200, !.out = <<s>>])
                  /\ advanced' = [advanced EXCEPT ![s.tracking.txt] = @ + 1]
    /\ UNCHANGED <<file, nextId, budget, issued, registeredOK, createdOK, observed>>

\* ---------------------------------------------------------------- the file writer
\* the callers of db.write() whose promise resolves when the text in hand lands
Resolved(w) == IF w.next = <<>> THEN {"batch", "direct"} ELSE {"batch"}

Answered == {r \in DOMAIN req : r.pc = "write" /\ r.wait \in Resolved(writer)}

\* the create requests answered in one step, as a sequence (by tracking code)
RECURSIVE createdBy(_)
createdBy(rs) ==
    IF rs = {} THEN <<>>
    ELSE LET r == CHOOSE q \in rs : \A q2 \in rs : q.tracking.txt <= q2.tracking.txt
         IN <<[tracking |-> r.tracking, owner |-> r.token.uid]>> \o createdBy(rs \ {r})

stageIn(doc, t) ==
    LET i == findShipment(doc, [txt |-> t, cs |-> "upper"])
    IN IF i = 0 THEN 0 ELSE indexOf(nextStatuses, doc.shipments[i].status)

\* a handler waiting for the kept text waits for the next write from now on
afterLand(r) == IF r.pc = "write" /\ r.wait = "queued" THEN [r EXCEPT !.wait = "batch"] ELSE r

\* the rename of the temporary file: the text in hand becomes the file, the
\* handlers waiting for it answer, the kept text (if any) is written next
writeLand ==
    /\ writer.cur # <<>>
    /\ file' = writer.cur[1]
    /\ writer' = [cur |-> writer.next, next |-> <<>>]
    /\ req' = BagOfAll(afterLand, [r \in DOMAIN req \ Answered |-> req[r]])
    /\ sent' = {Answer(r, 200, "", r.out, r.uid) : r \in Answered}
    /\ issued' = issued \cup {r.uid : r \in {q \in Answered : q.kind = "register"}}
    /\ registeredOK' = registeredOK
          \cup {r.email.txt : r \in {q \in Answered : q.kind = "register"}}
    /\ createdOK' = createdOK \o createdBy({q \in Answered : q.kind = "create"})
    /\ observed' = [t \in 1..IdBound |->
                      IF stageIn(file', t) > observed[t] THEN stageIn(file', t) ELSE observed[t]]
    /\ UNCHANGED <<dbData, nextId, budget, advanced>>

\* ---------------------------------------------------------------- specifications
InFlight == BagToSet(req)

\* a request arrives
Start ==
    \/ register
    \/ login
    \/ createShipment
    \/ getShipment
    \/ myShipments
    \/ advance

\* an awaited promise resolves and its handler goes on
Continue ==
    \/ \E r \in InFlight : registerAfterRead(r)
    \/ \E r \in InFlight : registerAfterHash(r)
    \/ \E r \in InFlight : loginAfterRead(r)
    \/ \E r \in InFlight : loginAfterCompare(r)
    \/ \E r \in InFlight : createAfterRead(r)
    \/ \E r \in InFlight : getAfterRead(r)
    \/ \E r \in InFlight : myShipmentsAfterRead(r)
    \/ \E r \in InFlight : advanceAfterRead(r)

Next == Start \/ Continue \/ writeLand

Spec == Init /\ [][Next]_vars

\* requests one at a time: a request starts only when no handler is running
Quiet == req = EmptyBag

SeqInit == InitWith(SeqMaxReqs)

SeqNext == (Quiet /\ Start) \/ Continue \/ writeLand

SeqSpec == SeqInit /\ [][SeqNext]_vars

\* ---------------------------------------------------------------- properties
WriterIdle == writer.cur = <<>> /\ writer.next = <<>>

\* the shipment with tracking code text t in a document (as a sequence of 0 or 1)
shipmentOf(doc, t) ==
    LET i == findShipment(doc, [txt |-> t, cs |-> "upper"])
    IN IF i = 0 THEN <<>> ELSE <<doc.shipments[i]>>

Last(seq) == seq[Len(seq)]

\* C1: the status of a persisted shipment never shows a stage earlier than one
\* the file has shown before.
StatusNeverRegresses ==
    \A i \in 1..Len(file.shipments) :
        indexOf(nextStatuses, file.shipments[i].status) >= observed[file.shipments[i].tracking.txt]

\* C2: every stored shipment (in the file and in db.data) has a non-empty
\* history whose last entry is its status.
HistoryEndsWithStatus ==
    \A doc \in {file, dbData} : \A i \in 1..Len(doc.shipments) :
        /\ doc.shipments[i].history # <<>>
        /\ Last(doc.shipments[i].history) = doc.shipments[i].status

\* a shipment advanced by two handlers, one of them still waiting for its write
HistoryEndsWithStatusWitness ==
    \E i \in 1..Len(file.shipments) :
        /\ Len(file.shipments[i].history) >= 2
        /\ advanced[file.shipments[i].tracking.txt] >= 2
        /\ req # EmptyBag

\* C3 as stated: after N >= 4 advances in a row on a fresh shipment its status
\* is Delivered and its history has min(N,4)+1 entries.
AdvanceNTimesCapped ==
    (Quiet /\ WriterIdle) =>
        \A i \in 1..Len(file.shipments) :
            LET s == file.shipments[i]
                N == advanced[s.tracking.txt]
            IN N >= 4 => /\ s.status = "Delivered"
                         /\ Len(s.history) = Min(N, 4) + 1

\* C3 amended: after N >= 4 advances in a row on a fresh shipment its status is
\* Delivered, its history has N+1 entries, and every entry is one of the five
\* stages.
AdvanceNTimes ==
    (Quiet /\ WriterIdle) =>
        \A i \in 1..Len(file.shipments) :
            LET s == file.shipments[i]
                N == advanced[s.tracking.txt]
            IN /\ N >= 4 => /\ s.status = "Delivered"
                            /\ Len(s.history) = N + 1
               /\ \A k \in 1..Len(s.history) : indexOf(nextStatuses, s.history[k]) # 0

AdvanceNTimesWitness ==
    /\ Quiet /\ WriterIdle
    /\ \E i \in 1..Len(file.shipments) :
        /\ advanced[file.shipments[i].tracking.txt] = 5
        /\ Len(file.shipments[i].history) = 6
        /\ file.shipments[i].status = "Delivered"

\* C4: with requests one at a time, an advance of a shipment that exists is
\* answered 200 whatever its stage; it has added exactly one entry to the
\* persisted history, the entry is the new status, and a shipment that was
\* Delivered stays Delivered (the entry repeats Delivered).
AdvanceAppendsOne ==
    [][\A a \in sent' :
         a.kind = "advance" =>
            LET before == shipmentOf(file, a.tracking.txt)
                after == shipmentOf(file', a.tracking.txt)
            IN /\ (a.code = 200) = (before # <<>>)
               /\ a.code = 200 =>
                    /\ a.out = after
                    /\ after[1].history = Append(before[1].history, after[1].status)
                    /\ indexOf(nextStatuses, after[1].status) =
                          Min(indexOf(nextStatuses, before[1].status) + 1, Len(nextStatuses))
                    /\ before[1].status = "Delivered" => after[1].status = "Delivered"]_vars

\* an advance of a Delivered shipment was answered 200
AdvanceAppendsOneWitness ==
    \E a \in sent :
        /\ a.kind = "advance" /\ a.code = 200
        /\ Len(a.out[1].history) = 6
        /\ a.out[1].history[5] = "Delivered" /\ a.out[1].history[6] = "Delivered"

\* C5: a register request that starts after a register of the same email
\* (ignoring case) was answered 200 is answered 400.
SecondRegisterFails ==
    \A a \in sent : (a.kind = "register" /\ a.email.txt \in a.seen) => a.code = 400

\* C6: no two users in the file have the same email.
EmailIsUniqueKey ==
    \A i, j \in 1..Len(file.users) : i # j => file.users[i].email # file.users[j].email

\* C7: a shipment whose create request was answered 200 is in the file from
\* then on.
CreatedNeverRemoved ==
    \A i \in 1..Len(createdOK) : findShipment(file, createdOK[i].tracking) # 0

\* the tracking codes of the shipments in ships / of the entries of created owned by uid
RECURSIVE trackingsOf(_)
trackingsOf(ships) ==
    IF ships = <<>> THEN <<>> ELSE <<Head(ships).tracking>> \o trackingsOf(Tail(ships))

RECURSIVE createdFor(_, _)
createdFor(created, uid) ==
    IF created = <<>> THEN <<>>
    ELSE IF Head(created).owner = uid
         THEN <<Head(created).tracking>> \o createdFor(Tail(created), uid)
         ELSE createdFor(Tail(created), uid)

\* C8: with requests one at a time, my-shipments with a valid token of user u
\* answers exactly the shipments whose create was answered 200 with a token of
\* u, in the order they were created.
MyShipmentsExact ==
    \A a \in sent :
        (a.kind = "list" /\ a.token.kind = "valid") =>
            /\ a.code = 200
            /\ trackingsOf(a.out) = createdFor(createdOK, a.token.uid)
            /\ \A k \in 1..Len(a.out) : a.out[k].owner = a.token.uid

\* a user with two shipments lists them while another user has one
MyShipmentsExactWitness ==
    \E a \in sent :
        /\ a.kind = "list" /\ a.code = 200
        /\ Len(a.out) = 2
        /\ Len(createdOK) = 3

ProtectedKinds == {"create", "list"}

\* C9: a create-shipment or my-shipments request whose token is missing,
\* malformed, expired or wrongly signed is answered 401 in the step it arrives:
\* no handler starts, db.data, the file and the writer are untouched, and no
\* tracking code is drawn.
BadTokenRejected ==
    [][/\ \A a \in sent' :
            (a.kind \in ProtectedKinds /\ a.token.kind # "valid") =>
                /\ a.code = 401
                /\ UNCHANGED <<file, dbData, writer, req, nextId, createdOK>>
       /\ \A r \in DOMAIN req' :
            r.kind \in ProtectedKinds => r.token.kind = "valid"]_vars

\* an expired token of a registered user was turned away
BadTokenRejectedWitness ==
    \E a \in sent :
        /\ a.kind = "create" /\ a.code = 401
        /\ a.token.kind = "expired" /\ a.token.uid \in issued
        /\ file.users # <<>>

\* C10: the history of a persisted shipment never has more entries than one
\* plus the advance handlers that updated it: updates can be lost (the witness),
\* never invented.
NoMoreEntriesThanAdvances ==
    \A i \in 1..Len(file.shipments) :
        Len(file.shipments[i].history) <= 1 + advanced[file.shipments[i].tracking.txt]

\* the lost update: two advances of one shipment have both been answered (no
\* handler is left, every one that updated was answered 200) and the file
\* shows one stage and one entry more
LostUpdate ==
    /\ Quiet /\ WriterIdle
    /\ \E i \in 1..Len(file.shipments) :
        /\ advanced[file.shipments[i].tracking.txt] = 2
        /\ file.shipments[i].status = "Picked Up"
        /\ file.shipments[i].history = <<"Label Created", "Picked Up">>

====
